---- MODULE Spec2Model ----
(***************************************************************************)
(* Model of src/static/script.js: the browser client of the WebSocket     *)
(* echo server.  One page-wide closure holds conn, pingInterval,          *)
(* pongReceived and pongTimeoutId; every callback (click, transport       *)
(* notification, timer) runs to completion on the single event loop, so   *)
(* each callback is one action.                                           *)
(*                                                                         *)
(* Strings that the code inspects (e.data, the input text) are sequences  *)
(* of one-character strings.  Time is kept in milliseconds and advances   *)
(* in steps of the greatest common divisor of the three delays.           *)
(***************************************************************************)
EXTENDS Integers, Sequences, FiniteSets, TLC

\* ---------------------------------------------------------------- bounds
\* Transports that are not yet fully closed plus reconnect timers that are
\* still pending; only a user click on "Connect" can raise that number.
MaxTransports == 2

\* ------------------------------------------------------ program constants
Null == 0
PING_INTERVAL_MS == 60000
\* a pong timeout longer than the ping interval
PongTimeoutBeyondInterval == 2 * PING_INTERVAL_MS

PONG_TIMEOUT_MS == 5000
RECONNECT_DELAY_MS == 5000

RECURSIVE GCD(_, _)
GCD(a, b) == IF b = 0 THEN a ELSE GCD(b, a % b)

\* The step of the clock: every delay is a whole number of quanta.
TimeQuantum == GCD(GCD(PING_INTERVAL_MS, PONG_TIMEOUT_MS), RECONNECT_DELAY_MS)

\* ------------------------------------------------------------------ text
PingFrame == <<"p", "i", "n", "g">>
PongFrame == <<"p", "o", "n", "g">>
PongTimeoutReason == "Pong timeout"

\* A character is a string: the character itself where TLA+ can write it
\* (printable ASCII, "\t", "\n", "\f", "\r"), else its code point ("U+00A0").

\* Values the user can leave in the #text input.
Texts == { <<>>, <<" ", "\r", "U+00A0">>, <<"h", "i">>, <<"\t", "h", "i", " ">> }

\* Payloads the server can deliver.
Frames == { PongFrame, <<"h", "i">> }

\* Close codes the transport can report in a CloseEvent.
CloseCodes == { 1000, 1006, 1008 }

\* ECMAScript WhiteSpace: tab, VT, FF, space, NBSP, ZWNBSP and the
\* characters of Unicode category Zs.
WhiteSpace ==
  { "\t", "U+000B", "\f", " ", "U+00A0", "U+FEFF",
    "U+1680", "U+2000", "U+2001", "U+2002", "U+2003", "U+2004", "U+2005", "U+2006",
    "U+2007", "U+2008", "U+2009", "U+200A", "U+202F", "U+205F", "U+3000" }

\* ECMAScript LineTerminator: LF, CR, LS, PS.
LineTerminator == { "\n", "\r", "U+2028", "U+2029" }

\* The characters String.prototype.trim strips.
IsSpace(c) == c \in WhiteSpace \cup LineTerminator

RECURSIVE TrimLeft(_)
TrimLeft(s) ==
  IF s # <<>> /\ IsSpace(Head(s)) THEN TrimLeft(Tail(s)) ELSE s

RECURSIVE TrimRight(_)
TrimRight(s) ==
  IF s # <<>> /\ IsSpace(s[Len(s)]) THEN TrimRight(SubSeq(s, 1, Len(s) - 1)) ELSE s

\* String.prototype.trim
trim(s) == TrimRight(TrimLeft(s))

\* ----------------------------------------------------------------- state
VARIABLES
  conn,           \* the closure's conn: Null or the id of a transport
  pingInterval,   \* handle of the setInterval timer, or Null
  pongReceived,   \* the closure's pongReceived flag
  pongTimeoutId,  \* handle last returned by setTimeout in sendPing, or Null
  status,         \* text of #status
  label,          \* html of #connect
  text,           \* value of #text
  ws,             \* transport id -> state of that WebSocket object
  timers,         \* pending timers, in the order they were set
  out,            \* calls the last callback made on its collaborators, in order
  last,           \* the last callback: what ran, on which transport, conn before it
  probe,          \* the ping that is still unanswered, and how long ago it was sent
  superseded,     \* reconnect timers that were pending when the user's click
                  \* established the connection that conn still is
  pinged          \* the transport the last "ping" was sent on, while it exists

vars == <<conn, pingInterval, pongReceived, pongTimeoutId, status, label, text,
          ws, timers, out, last, probe, superseded, pinged>>

TransportIds == 1..MaxTransports

\* State of a WebSocket object.  FAILING is a transport closed before it
\* opened (it will report error, then close); ERRORED is a transport whose
\* error event has run and whose close event is the next callback.
TransportStates == { "NONE", "CONNECTING", "OPEN", "CLOSING", "FAILING", "ERRORED", "CLOSED" }

\* WebSocket.readyState
readyState(w, t) ==
  CASE w[t] = "CONNECTING" -> "CONNECTING"
    [] w[t] = "OPEN" -> "OPEN"
    [] w[t] \in { "CLOSING", "FAILING" } -> "CLOSING"
    [] OTHER -> "CLOSED"

\* The closure's variables and the collaborators, as one value that the
\* functions below transform.  exc is set when a call has thrown.
G == [ conn |-> conn, pingInterval |-> pingInterval, pongReceived |-> pongReceived,
       pongTimeoutId |-> pongTimeoutId, status |-> status, label |-> label,
       text |-> text, ws |-> ws, timers |-> timers, out |-> <<>>, exc |-> FALSE ]

\* ------------------------------------------------------------- collaborators
Emit(g, e) == [g EXCEPT !.out = Append(@, e)]

\* log(msg): the line handed to the #log element, which shows the newest
\* 100 lines; out keeps the lines of the running callback.
log(g, msg) == Emit(g, <<"log">> \o msg)

Throw(g, name) == [Emit(g, <<"throw", name>>) EXCEPT !.exc = TRUE]

TimerIdsInUse(g) ==
  { g.timers[i].id : i \in DOMAIN g.timers } \cup { g.pingInterval, g.pongTimeoutId }

\* Timer handles are fresh positive integers; the model names a new timer
\* with the least handle that no pending timer and no stored handle uses.
NextTimerId(g) ==
  CHOOSE n \in 1..(Cardinality(TimerIdsInUse(g)) + 1) :
    /\ n \notin TimerIdsInUse(g)
    /\ \A m \in 1..(n - 1) : m \in TimerIdsInUse(g)

\* setTimeout / setInterval: the new timer goes behind the pending ones.
setTimer(g, kind, dur) ==
  LET id == NextTimerId(g) IN
  [Emit(g, <<"setTimer", kind, id>>) EXCEPT
     !.timers = Append(@, [kind |-> kind, id |-> id, rem |-> dur, dur |-> dur])]

\* clearTimeout / clearInterval: a handle that names no pending timer is ignored.
clearTimer(g, id) ==
  LET keep(tm) == tm.id # id IN
  [Emit(g, <<"clearTimer", id>>) EXCEPT !.timers = SelectSeq(@, keep)]

\* The close codes a script may pass to WebSocket.close.
ValidCloseCode(c) == c = 1000 \/ c \in 3000..4999

\* WebSocket.close(...args): a code that is neither 1000 nor in 3000..4999
\* throws InvalidAccessError, in every state, and the connection is left
\* as it was; otherwise an open or connecting transport starts to close.
wsClose(g, t, args) ==
  LET g1 == Emit(g, <<"close", t>> \o args) IN
  CASE args # <<>> /\ ~ValidCloseCode(args[1]) -> Throw(g1, "InvalidAccessError")
    [] (args = <<>> \/ ValidCloseCode(args[1])) /\ g.ws[t] = "CONNECTING" ->
         [g1 EXCEPT !.ws[t] = "FAILING"]
    [] (args = <<>> \/ ValidCloseCode(args[1])) /\ g.ws[t] = "OPEN" ->
         [g1 EXCEPT !.ws[t] = "CLOSING"]
    [] OTHER -> g1

\* WebSocket.send(data); calling it on null is a TypeError.
wsSend(g, t, data) ==
  CASE t = Null -> Throw(g, "TypeError")
    [] t # Null /\ readyState(g.ws, t) = "CONNECTING" -> Throw(g, "InvalidStateError")
    [] t # Null /\ readyState(g.ws, t) = "OPEN" -> Emit(g, <<"send", t, data>>)
    [] OTHER -> g

FreeTransports(w) == { t \in TransportIds : w[t] \in { "NONE", "CLOSED" } }

\* new WebSocket(wsUri): a fully closed object delivers nothing more and is
\* referenced by nothing, so its id names the new object.
NewTransport(w) == CHOOSE t \in FreeTransports(w) : \A u \in FreeTransports(w) : t <= u

\* -------------------------------------------------------------- functions
update_ui(g) ==
  IF g.conn = Null
    THEN [g EXCEPT !.status = "disconnected", !.label = "Connect"]
    ELSE [g EXCEPT !.status = "connected", !.label = "Disconnect"]

\* stopPingPong that cancels only the interval
stopPingPong_intervalOnly(g) ==
  IF g.pingInterval # Null
    THEN [clearTimer(g, g.pingInterval) EXCEPT !.pingInterval = Null]
    ELSE g

stopPingPong(g) ==
  LET g1 == IF g.pingInterval # Null
              THEN [clearTimer(g, g.pingInterval) EXCEPT !.pingInterval = Null]
              ELSE g
  IN IF g1.pongTimeoutId # Null
       THEN [clearTimer(g1, g1.pongTimeoutId) EXCEPT !.pongTimeoutId = Null]
       ELSE g1

\* startPingPong that does not stop the running heartbeat first
startPingPong_noStop(g) ==
  LET id == NextTimerId(g)
  IN [setTimer(g, "ping", PING_INTERVAL_MS) EXCEPT !.pingInterval = id]

startPingPong(g) ==
  LET g1 == stopPingPong(g)
      id == NextTimerId(g1)
  IN [setTimer(g1, "ping", PING_INTERVAL_MS) EXCEPT !.pingInterval = id]

\* disconnect without the test for a connection
disconnect_unguarded(g) ==
  LET g1 == log(g, <<"Disconnecting...">>)
      g2 == IF g1.conn # Null THEN wsClose(g1, g1.conn, <<>>) ELSE g1
      g3 == [g2 EXCEPT !.conn = Null]
  IN update_ui(stopPingPong(g3))

\* disconnect that also cancels the scheduled reconnects
disconnect_cancelsReconnect(g) ==
  IF g.conn # Null
    THEN LET g1 == log(g, <<"Disconnecting...">>)
             g2 == wsClose(g1, g1.conn, <<>>)
             g3 == [g2 EXCEPT !.conn = Null]
             keep(tm) == tm.kind # "reconnect"
         IN [update_ui(stopPingPong(g3)) EXCEPT !.timers = SelectSeq(@, keep)]
    ELSE g

disconnect(g) ==
  IF g.conn # Null
    THEN LET g1 == log(g, <<"Disconnecting...">>)
             g2 == wsClose(g1, g1.conn, <<>>)
             g3 == [g2 EXCEPT !.conn = Null]
         IN update_ui(stopPingPong(g3))
    ELSE g

connect(g) ==
  LET g1 == disconnect(g)
      t == NewTransport(g1.ws)
      g2 == [g1 EXCEPT !.ws[t] = "CONNECTING", !.conn = t]
  IN log(g2, <<"Connecting...">>)

\* sendPing that does not look at readyState
sendPing_noStateCheck(g) ==
  IF g.conn # Null
    THEN LET g1 == wsSend(g, g.conn, PingFrame)
             g2 == [g1 EXCEPT !.pongReceived = FALSE]
             id == NextTimerId(g2)
         IN IF g1.exc THEN g1
            ELSE [setTimer(g2, "pong", PONG_TIMEOUT_MS) EXCEPT !.pongTimeoutId = id]
    ELSE g

\* sendPing that leaves pongReceived as it is
sendPing_keepsFlag(g) ==
  IF g.conn # Null /\ readyState(g.ws, g.conn) = "OPEN"
    THEN LET g1 == wsSend(g, g.conn, PingFrame)
             id == NextTimerId(g1)
         IN [setTimer(g1, "pong", PONG_TIMEOUT_MS) EXCEPT !.pongTimeoutId = id]
    ELSE g

sendPing(g) ==
  IF g.conn # Null /\ readyState(g.ws, g.conn) = "OPEN"
    THEN LET g1 == wsSend(g, g.conn, PingFrame)
             g2 == [g1 EXCEPT !.pongReceived = FALSE]
             id == NextTimerId(g2)
         IN [setTimer(g2, "pong", PONG_TIMEOUT_MS) EXCEPT !.pongTimeoutId = id]
    ELSE g

\* the arrow function passed to setTimeout in sendPing
pongTimeout(g) ==
  IF ~g.pongReceived
    THEN LET g1 == log(g, <<"Pong timeout! Disconnecting...">>)
         IN IF g1.conn = Null
              THEN Throw(g1, "TypeError")
              ELSE wsClose(g1, g1.conn, <<1008, PongTimeoutReason>>)
    ELSE g

onopen(g) ==
  LET g1 == log(g, <<"Connected.">>)
      g2 == [g1 EXCEPT !.pongReceived = TRUE]
  IN update_ui(startPingPong(g2))

\* onmessage without the clearTimeout call
onmessage_keepTimer(g, data) ==
  LET g1 == log(g, <<"Received: ", data>>)
  IN IF data = PongFrame THEN [g1 EXCEPT !.pongReceived = TRUE] ELSE g1

onmessage(g, data) ==
  LET g1 == log(g, <<"Received: ", data>>)
  IN IF data = PongFrame
       THEN [clearTimer(g1, g1.pongTimeoutId) EXCEPT !.pongReceived = TRUE]
       ELSE g1

\* onclose that reconnects only after an abnormal close
onclose_abnormalOnly(g, code) ==
  LET g1 == log(g, <<"Disconnected. Code: ", code>>)
      g2 == [g1 EXCEPT !.conn = Null]
      g3 == update_ui(stopPingPong(g2))
  IN IF code = 1000 THEN g3 ELSE setTimer(g3, "reconnect", RECONNECT_DELAY_MS)

onclose(g, code) ==
  LET g1 == log(g, <<"Disconnected. Code: ", code>>)
      g2 == [g1 EXCEPT !.conn = Null]
      g3 == update_ui(stopPingPong(g2))
  IN setTimer(g3, "reconnect", RECONNECT_DELAY_MS)

\* onerror that only logs
onerror_logOnly(g) ==
  log(g, <<"WebSocket Error occurred.">>)

onerror(g) ==
  stopPingPong(log(g, <<"WebSocket Error occurred.">>))

\* $('#connect').click
connectClick(g) ==
  update_ui(IF g.conn = Null THEN connect(g) ELSE disconnect(g))

\* send handler that tests the text without trimming it
sendClick_untrimmedTest(g) ==
  IF g.text = <<>>
    THEN g
    ELSE LET g1 == log(g, <<"Sending: ", g.text>>)
             g2 == wsSend(g1, g1.conn, g1.text)
         IN IF g2.exc THEN g2 ELSE [g2 EXCEPT !.text = <<>>]

\* send handler that transmits the trimmed text
sendClick_sendsTrimmed(g) ==
  IF trim(g.text) = <<>>
    THEN g
    ELSE LET g1 == log(g, <<"Sending: ", g.text>>)
             g2 == wsSend(g1, g1.conn, trim(g1.text))
         IN IF g2.exc THEN g2 ELSE [g2 EXCEPT !.text = <<>>]

\* $('#send').click
sendClick(g) ==
  IF trim(g.text) = <<>>
    THEN g
    ELSE LET g1 == log(g, <<"Sending: ", g.text>>)
             g2 == wsSend(g1, g1.conn, g1.text)
         IN IF g2.exc THEN g2 ELSE [g2 EXCEPT !.text = <<>>]

\* ---------------------------------------------------------------- helpers
RemoveAt(s, i) == SubSeq(s, 1, i - 1) \o SubSeq(s, i + 1, Len(s))

Pending(kind) == { i \in DOMAIN timers : timers[i].kind = kind }

\* A callback with what it was given and what it found: the transport that
\* notified, conn, and the number of pending timers of each kind.
Event(e, t, a) ==
  [ev |-> e, t |-> t, arg |-> a, cur |-> conn, pid |-> pongTimeoutId,
   nping |-> Cardinality(Pending("ping")),
   npong |-> Cardinality(Pending("pong")),
   nrec |-> Cardinality(Pending("reconnect"))]

NoProbe == [on |-> Null, age |-> 0]

\* The unanswered ping after a callback: a ping just sent starts it; a pong
\* or the end of the pinged transport's open state ends it.
ProbeAfter(r, ev) ==
  LET sentPing == /\ ev.ev = "ping"
                  /\ \E i \in DOMAIN r.out : r.out[i][1] = "send"
      p == IF sentPing THEN [on |-> r.conn, age |-> 0] ELSE probe
  IN IF p.on = Null THEN NoProbe
     ELSE IF r.ws[p.on] # "OPEN" THEN NoProbe
     ELSE IF ev.ev = "message" /\ ev.arg = PongFrame THEN NoProbe
     ELSE p

\* A click that establishes a connection supersedes the reconnects then
\* pending; that lasts until conn is cleared or set by a reconnect timer.
SupersededAfter(r, ev) ==
  IF r.conn = Null THEN {}
  ELSE IF ev.ev = "click"
    THEN { r.timers[i].id : i \in { j \in DOMAIN r.timers : r.timers[j].kind = "reconnect" } }
  ELSE IF ev.ev = "reconnect" THEN {}
  ELSE superseded

\* The transport that carries the last ping, forgotten once that
\* WebSocket object is fully closed.
PingedAfter(r, ev) ==
  LET sentPing == /\ ev.ev = "ping"
                  /\ \E i \in DOMAIN r.out : r.out[i][1] = "send"
  IN IF sentPing THEN r.conn
     ELSE IF pinged # Null /\ r.ws[pinged] = "CLOSED" THEN Null
     ELSE pinged

Commit(r, ev) ==
  /\ conn' = r.conn
  /\ pingInterval' = r.pingInterval
  /\ pongReceived' = r.pongReceived
  /\ pongTimeoutId' = r.pongTimeoutId
  /\ status' = r.status
  /\ label' = r.label
  /\ text' = r.text
  /\ ws' = r.ws
  /\ timers' = r.timers
  /\ out' = r.out
  /\ last' = ev
  /\ probe' = ProbeAfter(r, ev)
  /\ superseded' = SupersededAfter(r, ev)
  /\ pinged' = PingedAfter(r, ev)

\* Transports not fully closed, plus reconnects still to come.
Load == Cardinality({ t \in TransportIds : ws[t] \notin { "NONE", "CLOSED" } })
        + Cardinality(Pending("reconnect"))

\* An error event and the close event after it run in one task.
Idle == \A t \in TransportIds : ws[t] # "ERRORED"

\* A timer runs when its delay has passed and no timer set before it with
\* an equal or shorter delay is still waiting.
Due(i) ==
  /\ timers[i].rem = 0
  /\ \A j \in 1..(i - 1) : ~(timers[j].rem = 0 /\ timers[j].dur <= timers[i].dur)

\* ------------------------------------------------------------------ Init
Init ==
  /\ conn = Null
  /\ pingInterval = Null
  /\ pongReceived = TRUE
  /\ pongTimeoutId = Null
  /\ status = "disconnected"
  /\ label = "Connect"
  /\ text = <<>>
  /\ ws = [t \in TransportIds |-> "NONE"]
  /\ timers = <<>>
  /\ out = <<>>
  /\ last = [ev |-> "load", t |-> Null, arg |-> Null, cur |-> Null, pid |-> Null,
             nping |-> 0, npong |-> 0, nrec |-> 0]
  /\ probe = NoProbe
  /\ superseded = {}
  /\ pinged = Null

\* --------------------------------------------------------------- actions
\* The user clicks #connect.
ConnectClick ==
  /\ Idle
  /\ conn = Null => Load < MaxTransports
  /\ Commit(connectClick(G), Event("click", Null, Null))

\* The user edits #text.
TypeText(s) ==
  /\ Idle
  /\ s # text
  /\ Commit([G EXCEPT !.text = s], Event("type", Null, Null))

\* The user clicks #send (or presses Enter in #text).
SendClick ==
  /\ Idle
  /\ Commit(sendClick(G), Event("send", Null, text))

\* The transport t reports that it is open.
TransportOpen(t) ==
  /\ Idle
  /\ ws[t] = "CONNECTING"
  /\ Commit(onopen([G EXCEPT !.ws[t] = "OPEN"]), Event("open", t, Null))

\* The transport t delivers a text frame.
TransportMessage(t, data) ==
  /\ Idle
  /\ ws[t] = "OPEN"
  /\ Commit(onmessage(G, data), Event("message", t, data))

\* The peer starts the closing handshake on t: readyState becomes CLOSING
\* and no callback runs; the close event follows in a later task, so
\* timers and clicks can run in between.
TransportClosing(t) ==
  /\ Idle
  /\ ws[t] = "OPEN"
  /\ Commit([G EXCEPT !.ws[t] = "CLOSING"], Event("closing", t, Null))

\* The transport t fails: its error event runs, its close event is next.
TransportError(t) ==
  /\ Idle
  /\ ws[t] \in { "CONNECTING", "OPEN", "CLOSING", "FAILING" }
  /\ Commit(onerror([G EXCEPT !.ws[t] = "ERRORED"]), Event("error", t, Null))

\* The transport t reports that it is closed.
TransportClose(t, code) ==
  /\ ws[t] \in { "OPEN", "CLOSING", "ERRORED" }
  /\ Idle \/ ws[t] = "ERRORED"
  /\ Commit(onclose([G EXCEPT !.ws[t] = "CLOSED"], code), Event("close", t, code))

\* The timer set by onclose runs connect().
ReconnectTimer(i) ==
  /\ Idle
  /\ i \in Pending("reconnect")
  /\ Due(i)
  /\ Commit(connect([G EXCEPT !.timers = RemoveAt(@, i)]),
            Event("reconnect", Null, timers[i].id))

\* The interval timer runs sendPing() and is set again.
PingTimer(i) ==
  /\ Idle
  /\ i \in Pending("ping")
  /\ Due(i)
  /\ LET r == sendPing([G EXCEPT !.timers = RemoveAt(@, i)])
         again == [timers[i] EXCEPT !.rem = timers[i].dur]
     IN Commit([r EXCEPT !.timers = Append(@, again)],
               Event("ping", Null, timers[i].id))

\* The timer set by sendPing runs its callback.
PongTimer(i) ==
  /\ Idle
  /\ i \in Pending("pong")
  /\ Due(i)
  /\ Commit(pongTimeout([G EXCEPT !.timers = RemoveAt(@, i)]),
            Event("pong", Null, timers[i].id))

\* One quantum of time passes; no timer is overdue.
Tick ==
  /\ Idle
  /\ timers # <<>>
  /\ \A i \in DOMAIN timers : timers[i].rem > 0
  /\ timers' = [i \in DOMAIN timers |-> [timers[i] EXCEPT !.rem = @ - TimeQuantum]]
  /\ out' = <<>>
  /\ last' = Event("tick", Null, Null)
  /\ probe' = IF probe.on = Null THEN probe
              ELSE [probe EXCEPT !.age = IF @ > PONG_TIMEOUT_MS THEN @ ELSE @ + TimeQuantum]
  /\ UNCHANGED <<conn, pingInterval, pongReceived, pongTimeoutId, status, label, text, ws,
                 superseded, pinged>>

Next ==
  \/ ConnectClick
  \/ \E s \in Texts : TypeText(s)
  \/ SendClick
  \/ \E t \in TransportIds : TransportOpen(t)
  \/ \E t \in TransportIds, d \in Frames : TransportMessage(t, d)
  \/ \E t \in TransportIds : TransportClosing(t)
  \/ \E t \in TransportIds : TransportError(t)
  \/ \E t \in TransportIds, c \in CloseCodes : TransportClose(t, c)
  \/ \E i \in DOMAIN timers : ReconnectTimer(i)
  \/ \E i \in DOMAIN timers : PingTimer(i)
  \/ \E i \in DOMAIN timers : PongTimer(i)
  \/ Tick

Spec == Init /\ [][Next]_vars

TypeOK ==
  /\ conn \in TransportIds \cup { Null }
  /\ pongReceived \in BOOLEAN
  /\ status \in { "connected", "disconnected" }
  /\ label \in { "Connect", "Disconnect" }
  /\ text \in Texts
  /\ \A t \in TransportIds : ws[t] \in TransportStates
  /\ Load <= MaxTransports

TimerFires == \E i \in DOMAIN timers : ReconnectTimer(i) \/ PingTimer(i) \/ PongTimer(i)

ErroredCloses ==
  \E t \in TransportIds, c \in CloseCodes : ws[t] = "ERRORED" /\ TransportClose(t, c)

\* The callbacks that decide reconnection: the user only clicks #connect,
\* the server sends no text frame (onmessage touches neither conn, nor a
\* transport, nor a reconnect timer), and a close reports 1006 after an
\* error event and 1000 otherwise.
ReconnectNext ==
  \/ ConnectClick
  \/ \E t \in TransportIds : TransportOpen(t)
  \/ \E t \in TransportIds : TransportClosing(t)
  \/ \E t \in TransportIds : TransportError(t)
  \/ \E t \in TransportIds : TransportClose(t, IF ws[t] = "ERRORED" THEN 1006 ELSE 1000)
  \/ \E i \in DOMAIN timers : ReconnectTimer(i)
  \/ \E i \in DOMAIN timers : PingTimer(i)
  \/ \E i \in DOMAIN timers : PongTimer(i)
  \/ Tick

\* The event loop runs a timer that is due, time passes, and the close
\* event that completes a failure follows its error event.
FairSpec ==
  /\ Init
  /\ [][ReconnectNext]_vars
  /\ SF_vars(Tick)
  /\ SF_vars(TimerFires)
  /\ WF_vars(ErroredCloses)

\* A transport that was closed locally reports its failure or its close.
LocalCloseCompletes(t) ==
  /\ ws[t] \in { "CLOSING", "FAILING" }
  /\ TransportError(t) \/ \E c \in { 1000, 1006 } : TransportClose(t, c)

\* FairSpec, and every local close is answered by the transport.
DisconnectSpec ==
  /\ Init
  /\ [][ReconnectNext]_vars
  /\ SF_vars(Tick)
  /\ SF_vars(TimerFires)
  /\ WF_vars(ErroredCloses)
  /\ \A t \in TransportIds : SF_vars(LocalCloseCompletes(t))

\* ---------------------------------------------------------------- claims
Live == { t \in TransportIds : ws[t] \in { "CONNECTING", "OPEN" } }

LogLines == { i \in DOMAIN out : out[i][1] = "log" }
SentFrames == { i \in DOMAIN out : out[i][1] = "send" }

Notifications == { "open", "message", "close", "error" }

\* C1: at most one transport created by connect() is connecting or open
\* and not yet closed locally.
C1_AtMostOneLive == Cardinality(Live) <= 1

\* C2: a notification from a transport other than the current connection,
\* delivered while a newer connection is current, leaves conn, the
\* heartbeat timers and the displayed status unchanged and schedules no
\* reconnect.
C2_StaleNotificationIgnored ==
  [][(/\ last'.ev \in Notifications
      /\ conn # Null
      /\ last'.t # conn)
     => /\ UNCHANGED <<conn, pingInterval, pongTimeoutId, status, label>>
        /\ Cardinality(Pending("ping"))' = Cardinality(Pending("ping"))
        /\ Cardinality(Pending("pong"))' = Cardinality(Pending("pong"))
        /\ Cardinality(Pending("reconnect"))' = Cardinality(Pending("reconnect"))]_vars

\* C3: whenever conn is null at the end of a callback, neither the ping
\* interval timer nor a pong-timeout timer is pending.
C3_NoHeartbeatWithoutConnection ==
  conn = Null => Pending("ping") = {} /\ Pending("pong") = {}

\* C4: a ping sent on a connection that stays open and gets no pong is
\* closed by the time the pong timeout has elapsed: time never moves past
\* the timeout with the ping unanswered and its transport still open.
C4_UnansweredPingCloses == probe.on # Null => probe.age <= PONG_TIMEOUT_MS

\* C5: every close notification, whatever the code, adds exactly one
\* reconnect timer; a reconnect timer goes away only by running connect();
\* and while one is pending, connect() is eventually run by it.
C5_CloseSchedulesReconnect ==
  /\ [][/\ (last'.ev = "close") =>
             (/\ Cardinality(Pending("reconnect"))' = Cardinality(Pending("reconnect")) + 1
              /\ timers'[Len(timers')].kind = "reconnect"
              /\ timers'[Len(timers')].rem = RECONNECT_DELAY_MS)
        /\ (Cardinality(Pending("reconnect"))' < Cardinality(Pending("reconnect"))) =>
             (/\ last'.ev = "reconnect"
              /\ Cardinality(Pending("reconnect"))' = Cardinality(Pending("reconnect")) - 1
              /\ conn' # Null
              /\ ws'[conn'] = "CONNECTING")]_vars
  /\ (Pending("reconnect") # {}) ~> (last.ev = "reconnect")

C5_Witness ==
  /\ last.ev = "reconnect"
  /\ last.cur = Null
  /\ conn # Null
  /\ ws[conn] = "CONNECTING"
  /\ Pending("reconnect") = {}

\* C6: a reconnect timer that was pending when the user connected manually
\* leaves, when it fires, the user's connection current and its transport
\* as it was.
C6_ReconnectKeepsManualConnection ==
  [][(last'.ev = "reconnect" /\ last'.arg \in superseded)
     => conn' = conn /\ ws'[conn] = ws[conn]]_vars

\* C7: a send click with empty or whitespace-only text calls nothing (no
\* frame, no log line) and changes no state.
C7_BlankSendIsNoOp ==
  [][(last'.ev = "send" /\ trim(text) = <<>>)
     => /\ out' = <<>>
        /\ UNCHANGED <<conn, pingInterval, pongReceived, pongTimeoutId, status, label,
                       text, ws, timers>>]_vars

C7_Witness ==
  /\ last.ev = "send"
  /\ last.arg = <<" ", "\r", "U+00A0">>
  /\ conn # Null
  /\ ws[conn] = "OPEN"

\* C8: a send click with text that is not blank, on an open connection,
\* logs one 'Sending' line, transmits one frame carrying the text as
\* entered, and empties the input.
C8_SendTransmitsLiteralText ==
  [][(last'.ev = "send" /\ trim(text) # <<>> /\ conn # Null /\ ws[conn] = "OPEN")
     => /\ out' = << <<"log", "Sending: ", text>>, <<"send", conn, text>> >>
        /\ text' = <<>>]_vars

C8_Witness ==
  /\ last.ev = "send"
  /\ last.arg = <<"\t", "h", "i", " ">>
  /\ SentFrames # {}
  /\ text = <<>>

\* C9: the send click logs 'Sending' and calls send only when conn is
\* present and its transport is open.
C9_SendOnlyWhenOpen ==
  [][(last'.ev = "send" /\ out' # <<>>) => (conn # Null /\ ws[conn] = "OPEN")]_vars

\* C10: an inbound frame is logged once, verbatim, as the first thing the
\* callback does; a "pong" frame then cancels the pong-timeout timer and
\* sets pongReceived, whether or not a ping was outstanding.
C10_ReceivedLoggedAndPongCancels ==
  [][last'.ev = "message"
     => /\ out'[1] = <<"log", "Received: ", last'.arg>>
        /\ Cardinality(LogLines') = 1
        /\ last'.arg = PongFrame
             => /\ out' = << out'[1], <<"clearTimer", pongTimeoutId>> >>
                /\ Pending("pong")' = {}
                /\ pongReceived']_vars

C10_Witness ==
  /\ last.ev = "message"
  /\ last.arg = PongFrame
  /\ last.npong = 1
  /\ Pending("pong") = {}
  /\ pongReceived

IsReconnect(tm) == tm.kind = "reconnect"

\* The user's click has just closed an open connection.
UserDisconnected ==
  /\ last.ev = "click"
  /\ last.cur # Null
  /\ conn = Null
  /\ ws[last.cur] = "CLOSING"

\* C11: a click that disconnects leaves every scheduled reconnect pending,
\* the close notification of a locally closed transport schedules one more,
\* and after the user has disconnected an open connection connect() is
\* eventually run by a reconnect timer.
C11_DisconnectStillReconnects ==
  /\ [][/\ (last'.ev = "click" /\ conn # Null) =>
             SelectSeq(timers', IsReconnect) = SelectSeq(timers, IsReconnect)
        /\ (last'.ev = "close" /\ ws[last'.t] = "CLOSING") =>
             Cardinality(Pending("reconnect"))' = Cardinality(Pending("reconnect")) + 1]_vars
  /\ UserDisconnected ~> (last.ev = "reconnect" /\ conn # Null)

C11_Witness ==
  /\ UserDisconnected
  /\ last.nrec = 1
  /\ Cardinality(Pending("reconnect")) = 1

IsHeartbeat(tm) == tm.kind \in { "ping", "pong" }

\* C12: disconnect() with no connection returns the state as it got it and
\* calls nothing; so a connect() that starts without a connection logs only
\* 'Connecting...', closes nothing and leaves both heartbeat handles, the
\* heartbeat timers, the other reconnect timers and (when a timer called
\* it) the displayed status as they were.
C12_DisconnectWithoutConnectionIsNoOp ==
  /\ [](conn = Null => disconnect(G) = G)
  /\ [][(last'.ev \in { "click", "reconnect" } /\ conn = Null)
        => /\ out' = << <<"log", "Connecting...">> >>
           /\ UNCHANGED <<pingInterval, pongTimeoutId, pongReceived>>
           /\ SelectSeq(timers', IsHeartbeat) = SelectSeq(timers, IsHeartbeat)
           /\ last'.ev = "click" => timers' = timers
           /\ last'.ev = "reconnect" =>
                /\ Cardinality(Pending("reconnect"))' = Cardinality(Pending("reconnect")) - 1
                /\ UNCHANGED <<status, label>>
           /\ \A t \in TransportIds \ { conn' } : ws'[t] = ws[t]]_vars

C12_Witness ==
  /\ last.ev = "reconnect"
  /\ last.cur = Null
  /\ last.nping = 1
  /\ Pending("ping") # {}
  /\ pingInterval # Null

ClearedTimers == { i \in DOMAIN out : out[i][1] = "clearTimer" }

\* C13 as stated: an error notification leaves the heartbeat timers as
\* they were.
C13_ErrorKeepsHeartbeat ==
  [][last'.ev = "error"
     => /\ Cardinality(Pending("ping"))' = Cardinality(Pending("ping"))
        /\ Cardinality(Pending("pong"))' = Cardinality(Pending("pong"))]_vars

\* C13 as amended: an error notification itself cancels the ping interval
\* timer and any pending pong-timeout timer and clears both handles; the
\* close notification that follows it has no heartbeat timer left to cancel.
C13_ErrorStopsHeartbeat ==
  [][/\ last'.ev = "error" =>
          /\ Pending("ping")' = {}
          /\ Pending("pong")' = {}
          /\ pingInterval' = Null
          /\ pongTimeoutId' = Null
          /\ out'[1] = <<"log", "WebSocket Error occurred.">>
     /\ (last'.ev = "close" /\ ws[last'.t] = "ERRORED") => ClearedTimers' = {}]_vars

C13_Witness ==
  /\ last.ev = "error"
  /\ last.nping = 1
  /\ last.npong = 1
  /\ Pending("ping") = {}
  /\ Pending("pong") = {}

\* C14: at the end of every callback #status and #connect show 'connected'
\* and 'Disconnect' exactly when conn is not null, 'disconnected' and
\* 'Connect' otherwise.
C14_UiFollowsConnection ==
  IF conn # Null
    THEN status = "connected" /\ label = "Disconnect"
    ELSE status = "disconnected" /\ label = "Connect"

\* C15 as stated: pongTimeoutId is non-null only while pongReceived is true.
C15_HandleOnlyWhileFlagTrue == pongTimeoutId # Null => pongReceived

\* C15 as amended: a pong-timeout timer is pending only while pongReceived
\* is false, and it is the timer whose handle pongTimeoutId holds; a pong
\* sets the flag and keeps the handle, an error or close notification
\* clears the handle and keeps the flag.
C15_TimerOnlyWhileUnanswered ==
  /\ [](\A i \in Pending("pong") : timers[i].id = pongTimeoutId /\ ~pongReceived)
  /\ [][/\ (last'.ev = "message" /\ last'.arg = PongFrame) =>
             (pongReceived' /\ pongTimeoutId' = pongTimeoutId)
        /\ last'.ev \in { "error", "close" } =>
             (pongTimeoutId' = Null /\ pongReceived' = pongReceived)]_vars

C15_Witness ==
  /\ Pending("pong") # {}
  /\ ~pongReceived
  /\ pongTimeoutId # Null
  /\ conn # Null

\* C16: when connect() has set a new connection, the transport that was
\* current before it is closed and no ping or pong-timeout timer is pending.
C16_ConnectStartsClean ==
  (last.ev \in { "click", "reconnect" } /\ conn # Null)
    => /\ Pending("ping") = {}
       /\ Pending("pong") = {}
       /\ last.cur # Null => ws[last.cur] \notin { "CONNECTING", "OPEN" }

IsNotPing(tm) == tm.kind # "ping"

\* C17: at most one ping interval timer is pending in every state; right
\* after an open notification exactly one is pending, freshly set and held
\* in pingInterval, no pong-timeout timer is pending and pongReceived is true.
C17_OnePingTimer ==
  /\ Cardinality(Pending("ping")) <= 1
  /\ last.ev = "open" =>
       /\ Cardinality(Pending("ping")) = 1
       /\ \A i \in Pending("ping") :
            timers[i].id = pingInterval /\ timers[i].rem = PING_INTERVAL_MS
       /\ Pending("pong") = {}
       /\ pongReceived

C17_Witness ==
  /\ last.ev = "open"
  /\ last.nping = 1
  /\ Cardinality(Pending("ping")) = 1

\* C18: a tick of the ping timer that finds conn open sends "ping" on conn
\* and arms one pong-timeout timer; a tick that finds no connection, or one
\* that is not open, calls nothing and changes nothing but the interval's
\* own next run.
C18_PingOnlyWhenOpen ==
  [][last'.ev = "ping" =>
       IF conn # Null /\ ws[conn] = "OPEN"
         THEN /\ out' = << <<"send", conn, PingFrame>>, <<"setTimer", "pong", pongTimeoutId'>> >>
              /\ ~pongReceived'
              /\ Cardinality(Pending("pong"))' = Cardinality(Pending("pong")) + 1
              /\ UNCHANGED <<conn, ws>>
         ELSE /\ out' = <<>>
              /\ UNCHANGED <<conn, pingInterval, pongReceived, pongTimeoutId, status, label,
                             text, ws>>
              /\ SelectSeq(timers', IsNotPing) = SelectSeq(timers, IsNotPing)]_vars

C18_Witness ==
  /\ last.ev = "ping"
  /\ out = <<>>
  /\ conn # Null
  /\ ws[conn] # "OPEN"

\* C19: when the pong-timeout callback has run, conn was not null and was
\* the transport the ping was sent on: the callback did not call close on
\* null (no TypeError) and named no other transport in its close call.
C19_PongTimeoutOnPingedConnection ==
  last.ev = "pong" =>
    /\ last.cur # Null
    /\ last.cur = pinged
    /\ \A i \in DOMAIN out :
         /\ out[i] # <<"throw", "TypeError">>
         /\ out[i][1] = "close" => out[i][2] = pinged

C19_Witness ==
  /\ last.ev = "pong"
  /\ pinged # Null
  /\ out = << <<"log", "Pong timeout! Disconnecting...">>,
              <<"close", pinged, 1008, PongTimeoutReason>>,
              <<"throw", "InvalidAccessError">> >>
  /\ conn = pinged
  /\ ws[pinged] = "OPEN"

\* C20: at most one pong-timeout timer is pending, it is the one whose
\* handle pongTimeoutId holds, and when sendPing stores a new handle no
\* pong-timeout timer is pending any more.
C20_OnePongTimer ==
  /\ [](/\ Cardinality(Pending("pong")) <= 1
        /\ \A i \in Pending("pong") : timers[i].id = pongTimeoutId)
  /\ [][(last'.ev = "ping" /\ out' # <<>>) => Pending("pong") = {}]_vars

C20_Witness ==
  /\ last.ev = "ping"
  /\ last.pid # Null
  /\ out # <<>>
  /\ Cardinality(Pending("pong")) = 1
====
